---- MODULE Spec2Model ----
(***************************************************************************)
(* Model of Calls::GroupCallSettingsBox and SaveCallJoinMuted              *)
(* (Telegram/SourceFiles/calls/calls_group_settings.cpp).                  *)
(*                                                                         *)
(* The state is the channel data the dialog reads (username, invite link,  *)
(* the channel's group call, the manage right), the lifetime of the        *)
(* Calls::GroupCall object and of the box, the box's State struct, and    *)
(* what the dialog does to the outside: the clipboard, toasts, boxes it    *)
(* shows and API requests it sends.  Every click handler, callback and     *)
(* timer tick is one action; changes made by the rest of the application   *)
(* to the channel are environment actions.                                 *)
(***************************************************************************)
EXTENDS Integers, Sequences, FiniteSets, TLC

\* ---------------------------------------------------------------- bounds
MaxIds == 2
MaxLevel == 2
MaxDevices == 2
MaxClosings == 2

CallIds == 1..MaxIds
Levels == 0..MaxLevel
DeviceIds == 0..MaxDevices
Usernames == {"", "chan"}
Links == {"", "https://t.me/joinchat/A", "https://t.me/joinchat/B"}
ClipboardTexts == {"", "other text"}
ResponseTypes == {"chatInviteExported", "chatInviteEmpty"}

VARIABLES
    username,          \* channel->username ("" when the channel has none)
    inviteLink,        \* channel->inviteLink()
    channelCall,       \* channel->call(): a Data::GroupCall or NoCall
    canManageCall,     \* channel->canManageCall()
    callAlive,         \* weakCall.get() != nullptr
    dialog,            \* the values GroupCallSettingsBox captured when it ran
    boxState,          \* "open", "closing" (closeBox was called), "destroyed"
    checked,           \* muteJoined->checked()
    closings,          \* how many times the boxClosing event has fired
    toggleRequests,    \* the ToggleGroupCallSettings requests sent, in order
    shown,             \* boxes shown through box->getDelegate()->show(...)
    outputName,        \* last value published on the Speakers label
    inputName,         \* last value published on the Microphone label
    micTester,         \* Webrtc::AudioInputTester: its device and level
    micLevel,          \* State::micLevel
    micLevelAnimation, \* State::micLevelAnimation: [from, to] of the last start
    ticked,            \* whether the level timer has fired yet
    generatingLink,    \* State::generatingLink
    exportsSent,       \* ExportChatInvite requests sent
    exportsInFlight,   \* ExportChatInvite requests not answered yet
    clipboard,         \* QGuiApplication::clipboard()->text()
    last               \* what the last step did (observation only)

chanVars == <<username, inviteLink, channelCall, canManageCall, callAlive>>
boxVars == <<dialog, boxState, checked, closings>>
muteVars == <<toggleRequests>>
deviceVars == <<outputName, inputName, micTester>>
levelVars == <<micLevel, micLevelAnimation, ticked>>
linkVars == <<generatingLink, exportsSent, exportsInFlight, clipboard>>
vars == <<chanVars, boxVars, muteVars, shown, deviceVars, levelVars, linkVars, last>>

\* ------------------------------------------------------------ data types
NoCall == [id |-> 0, joinMuted |-> FALSE, canChangeJoinMuted |-> FALSE]
RealCalls == [id : CallIds, joinMuted : BOOLEAN, canChangeJoinMuted : BOOLEAN]

\* The name the device list shows for a device id.
DeviceName(d) == 100 + d

\* The record of a step: the handler that ran, whether it sent a request, wrote
\* the clipboard or showed a toast, whether the box still existed, and the
\* response it handled (when it handled one).
Did(op) ==
    [op |-> op, sent |-> FALSE, copied |-> FALSE, toast |-> FALSE,
     alive |-> TRUE, type |-> "", link |-> "", device |-> 0]

\* ------------------------------------------------------- SaveCallJoinMuted
\* A faulty variant of SaveCallJoinMuted: forgets the call-id comparison.
SaveCallJoinMutedAnyId(call, canManage, callId, joinMuted) ==
    IF \/ call = NoCall
       \/ ~canManage
       \/ ~call.canChangeJoinMuted
       \/ call.joinMuted = joinMuted
    THEN [call |-> call, requests |-> <<>>]
    ELSE [call |-> [call EXCEPT !.joinMuted = joinMuted],
          requests |-> <<[call |-> call.id, join_muted |-> joinMuted]>>]

\* A faulty variant of SaveCallJoinMuted: sends without comparing the current value.
SaveCallJoinMutedAlways(call, canManage, callId, joinMuted) ==
    IF \/ call = NoCall
       \/ call.id # callId
       \/ ~canManage
       \/ ~call.canChangeJoinMuted
    THEN [call |-> call, requests |-> <<>>]
    ELSE [call |-> [call EXCEPT !.joinMuted = joinMuted],
          requests |-> <<[call |-> call.id, join_muted |-> joinMuted]>>]

\* Returns the channel's call after the operation and the requests it sent.
SaveCallJoinMuted(call, canManage, callId, joinMuted) ==
    IF \/ call = NoCall
       \/ call.id # callId
       \/ ~canManage
       \/ ~call.canChangeJoinMuted
       \/ call.joinMuted = joinMuted
    THEN [call |-> call, requests |-> <<>>]
    ELSE [call |-> [call EXCEPT !.joinMuted = joinMuted],
          requests |-> <<[call |-> call.id, join_muted |-> joinMuted]>>]

\* ----------------------------------------------------------- invite link
createInternalLinkFull(name) == "https://t.me/" \o name

\* A faulty variant of lookupLink: never looks at the username.
lookupLinkInviteOnly(name, invite) == invite

lookupLink(name, invite) ==
    IF name # "" THEN createInternalLinkFull(name) ELSE invite

\* A faulty variant of copyLink: always shows the toast.
copyLinkAlwaysToast(name, invite, clip, weakBox) ==
    LET link == lookupLink(name, invite) IN
    IF link = ""
    THEN [result |-> FALSE, clipboard |-> clip, toast |-> FALSE]
    ELSE [result |-> TRUE, clipboard |-> link, toast |-> TRUE]

\* copyLink: the clipboard after it ran, whether it copied, whether it toasted.
copyLink(name, invite, clip, weakBox) ==
    LET link == lookupLink(name, invite) IN
    IF link = ""
    THEN [result |-> FALSE, clipboard |-> clip, toast |-> FALSE]
    ELSE [result |-> TRUE, clipboard |-> link, toast |-> weakBox]

\* --------------------------------------------------------- construction
\* GroupCallSettingsBox(box, call): what the function computes once.
Build(id, name, invite, canHaveInviteLink, real, canManage) ==
    LET goodReal == real # NoCall /\ real.id = id
        joinMuted == IF goodReal THEN real.joinMuted ELSE FALSE
        canChangeJoinMuted == goodReal /\ real.canChangeJoinMuted
    IN  [id |-> id,
         joinMuted |-> joinMuted,
         canChangeJoinMuted |-> canChangeJoinMuted,
         muteJoined |-> canManage /\ canChangeJoinMuted,
         shareButton |-> lookupLink(name, invite) # "" \/ canHaveInviteLink,
         endButton |-> canManage]

Init ==
    /\ username \in Usernames
    /\ inviteLink \in Links
    /\ channelCall \in RealCalls \cup {NoCall}
    /\ canManageCall \in BOOLEAN
    /\ callAlive = TRUE
    /\ \E id \in CallIds, canHaveInviteLink \in BOOLEAN :
          dialog = Build(id, username, inviteLink, canHaveInviteLink,
                         channelCall, canManageCall)
    /\ boxState = "open"
    /\ checked = dialog.joinMuted
    /\ closings = 0
    /\ toggleRequests = <<>>
    /\ shown = {}
    /\ \E out \in DeviceIds : outputName = DeviceName(out)
    /\ \E in \in DeviceIds :
          /\ inputName = DeviceName(in)
          /\ micTester = [deviceId |-> in, level |-> 0]
    /\ micLevel = 0
    /\ micLevelAnimation = [from |-> 0, to |-> 0]
    /\ ticked = FALSE
    /\ generatingLink = FALSE
    /\ exportsSent = 0
    /\ exportsInFlight = 0
    /\ clipboard \in ClipboardTexts
    /\ last = Did("init")

\* ------------------------------------------------------ closing the box
\* The boxClosing handler: the channel's call after it and the requests sent.
boxClosing(d, isChecked, call, canManage) ==
    IF d.canChangeJoinMuted /\ d.muteJoined /\ isChecked # d.joinMuted
    THEN SaveCallJoinMuted(call, canManage, d.id, isChecked)
    ELSE [call |-> call, requests |-> <<>>]

\* box->closeBox(): the boxClosing event fires and the box starts to hide.
closeBox(op) ==
    LET r == boxClosing(dialog, checked, channelCall, canManageCall) IN
    /\ channelCall' = r.call
    /\ toggleRequests' = toggleRequests \o r.requests
    /\ boxState' = "closing"
    /\ closings' = closings + 1
    /\ last' = [Did(op) EXCEPT !.sent = r.requests # <<>>]
    /\ UNCHANGED <<username, inviteLink, canManageCall, callAlive, dialog, checked>>

\* The user ticks or unticks "new participants are muted".
ToggleMuteJoined ==
    /\ boxState = "open"
    /\ dialog.muteJoined
    /\ checked' = ~checked
    /\ last' = Did("toggle")
    /\ UNCHANGED <<chanVars, dialog, boxState, closings, muteVars, shown,
                   deviceVars, levelVars, linkVars>>

\* The Done button.
ClickDone ==
    /\ boxState = "open"
    /\ closeBox("done")
    /\ UNCHANGED <<shown, deviceVars, levelVars, linkVars>>

\* The closing event fires again while the box is hiding.
CloseBoxAgain ==
    /\ boxState = "closing"
    /\ closings < MaxClosings
    /\ closeBox("closeAgain")
    /\ UNCHANGED <<shown, deviceVars, levelVars, linkVars>>

\* The box object is destroyed, and its State with it.
DestroyBox ==
    /\ boxState # "destroyed"
    /\ boxState' = "destroyed"
    /\ last' = Did("destroy")
    /\ UNCHANGED <<chanVars, dialog, checked, closings, muteVars, shown,
                   deviceVars, levelVars, linkVars>>

\* ------------------------------------------------------------- end call
LeaveBox == [box |-> "LeaveGroupCallBox", from |-> "end"]
SpeakersChooser == [box |-> "ChooseAudioInputBox", from |-> "speakers"]
MicrophoneChooser == [box |-> "ChooseAudioInputBox", from |-> "microphone"]

\* A faulty variant of ClickEndCall: does not look at weakCall.
ClickEndCallUnguarded ==
    /\ boxState = "open"
    /\ dialog.endButton
    /\ shown' = shown \cup {LeaveBox}
    /\ closeBox("end")
    /\ UNCHANGED <<deviceVars, levelVars, linkVars>>

ClickEndCall ==
    /\ boxState = "open"
    /\ dialog.endButton
    /\ IF callAlive
       THEN /\ shown' = shown \cup {LeaveBox}
            /\ closeBox("end")
       ELSE /\ last' = Did("end")
            /\ UNCHANGED <<chanVars, boxVars, muteVars, shown>>
    /\ UNCHANGED <<deviceVars, levelVars, linkVars>>

\* ------------------------------------------- the rest of the application
\* The channel's call is replaced, ended, or its settings change remotely.
ChannelCallUpdate ==
    /\ \E c \in (RealCalls \cup {NoCall}) \ {channelCall} : channelCall' = c
    /\ last' = Did("env")
    /\ UNCHANGED <<username, inviteLink, canManageCall, callAlive, boxVars,
                   muteVars, shown, deviceVars, levelVars, linkVars>>

ManageRightsUpdate ==
    /\ canManageCall' = ~canManageCall
    /\ last' = Did("env")
    /\ UNCHANGED <<username, inviteLink, channelCall, callAlive, boxVars,
                   muteVars, shown, deviceVars, levelVars, linkVars>>

\* The Calls::GroupCall object is destroyed.
GroupCallDestroyed ==
    /\ callAlive
    /\ callAlive' = FALSE
    /\ last' = Did("env")
    /\ UNCHANGED <<username, inviteLink, channelCall, canManageCall, boxVars,
                   muteVars, shown, deviceVars, levelVars, linkVars>>

UsernameUpdate ==
    /\ \E u \in Usernames \ {username} : username' = u
    /\ last' = Did("env")
    /\ UNCHANGED <<inviteLink, channelCall, canManageCall, callAlive, boxVars,
                   muteVars, shown, deviceVars, levelVars, linkVars>>

InviteLinkUpdate ==
    /\ \E l \in Links \ {inviteLink} : inviteLink' = l
    /\ last' = Did("env")
    /\ UNCHANGED <<username, channelCall, canManageCall, callAlive, boxVars,
                   muteVars, shown, deviceVars, levelVars, linkVars>>

\* ---------------------------------------------------------------- share
\* A faulty variant of ClickShare: never sets generatingLink.
ClickShareNoFlag ==
    /\ boxState = "open"
    /\ dialog.shareButton
    /\ LET c == copyLink(username, inviteLink, clipboard, boxState # "destroyed")
           export == ~c.result /\ ~generatingLink
       IN  /\ clipboard' = c.clipboard
           /\ generatingLink' = generatingLink
           /\ exportsSent' = IF export THEN exportsSent + 1 ELSE exportsSent
           /\ exportsInFlight' = IF export THEN exportsInFlight + 1 ELSE exportsInFlight
           /\ last' = [Did("share") EXCEPT !.sent = export, !.copied = c.result,
                                           !.toast = c.toast]
    /\ UNCHANGED <<chanVars, boxVars, muteVars, shown, deviceVars, levelVars>>

\* The Share button's click handler.
ClickShare ==
    /\ boxState = "open"
    /\ dialog.shareButton
    /\ LET c == copyLink(username, inviteLink, clipboard, boxState # "destroyed")
           export == ~c.result /\ ~generatingLink
       IN  /\ clipboard' = c.clipboard
           /\ generatingLink' = (generatingLink \/ export)
           /\ exportsSent' = IF export THEN exportsSent + 1 ELSE exportsSent
           /\ exportsInFlight' = IF export THEN exportsInFlight + 1 ELSE exportsInFlight
           /\ last' = [Did("share") EXCEPT !.sent = export, !.copied = c.result,
                                           !.toast = c.toast]
    /\ UNCHANGED <<chanVars, boxVars, muteVars, shown, deviceVars, levelVars>>

\* A faulty variant of ExportDone: runs the copy step before it stores the link.
ExportDoneCopyFirst(type, link) ==
    /\ exportsInFlight > 0
    /\ exportsInFlight' = exportsInFlight - 1
    /\ IF type = "chatInviteExported"
       THEN LET c == copyLink(username, inviteLink, clipboard, boxState # "destroyed") IN
            /\ inviteLink' = link
            /\ clipboard' = c.clipboard
            /\ last' = [Did("exportDone") EXCEPT !.copied = c.result, !.toast = c.toast,
                            !.alive = boxState # "destroyed", !.type = type, !.link = link]
       ELSE /\ last' = [Did("exportDone") EXCEPT !.alive = boxState # "destroyed",
                            !.type = type]
            /\ UNCHANGED <<inviteLink, clipboard>>
    /\ UNCHANGED <<username, channelCall, canManageCall, callAlive, boxVars, muteVars,
                   shown, deviceVars, levelVars, generatingLink, exportsSent>>

\* The done handler of the ExportChatInvite request.
ExportDone(type, link) ==
    /\ exportsInFlight > 0
    /\ exportsInFlight' = exportsInFlight - 1
    /\ IF type = "chatInviteExported"
       THEN LET c == copyLink(username, link, clipboard, boxState # "destroyed") IN
            /\ inviteLink' = link
            /\ clipboard' = c.clipboard
            /\ last' = [Did("exportDone") EXCEPT !.copied = c.result, !.toast = c.toast,
                            !.alive = boxState # "destroyed", !.type = type, !.link = link]
       ELSE /\ last' = [Did("exportDone") EXCEPT !.alive = boxState # "destroyed",
                            !.type = type]
            /\ UNCHANGED <<inviteLink, clipboard>>
    /\ UNCHANGED <<username, channelCall, canManageCall, callAlive, boxVars, muteVars,
                   shown, deviceVars, levelVars, generatingLink, exportsSent>>

\* The request fails: no fail handler is attached to it.
ExportFail ==
    /\ exportsInFlight > 0
    /\ exportsInFlight' = exportsInFlight - 1
    /\ last' = [Did("exportFail") EXCEPT !.alive = boxState # "destroyed"]
    /\ UNCHANGED <<chanVars, boxVars, muteVars, shown, deviceVars, levelVars,
                   generatingLink, exportsSent, clipboard>>

\* -------------------------------------------------------- device pickers
\* The Speakers button's click handler.
ClickSpeakers ==
    /\ boxState = "open"
    /\ shown' = shown \cup {SpeakersChooser}
    /\ last' = Did("speakers")
    /\ UNCHANGED <<chanVars, boxVars, muteVars, deviceVars, levelVars, linkVars>>

\* The Microphone button's click handler.
ClickMicrophone ==
    /\ boxState = "open"
    /\ shown' = shown \cup {MicrophoneChooser}
    /\ last' = Did("microphone")
    /\ UNCHANGED <<chanVars, boxVars, muteVars, deviceVars, levelVars, linkVars>>

\* A faulty variant of SpeakersChosen: runs the callback without crl::guard(box, ...).
SpeakersChosenUnguarded(id) ==
    /\ SpeakersChooser \in shown
    /\ shown' = shown \ {SpeakersChooser}
    /\ outputName' = DeviceName(id)
    /\ UNCHANGED <<inputName, micTester>>
    /\ last' = [Did("chooseSpeakers") EXCEPT !.alive = boxState # "destroyed",
                                             !.device = id]
    /\ UNCHANGED <<chanVars, boxVars, muteVars, levelVars, linkVars>>

\* The chooser opened from the Speakers button delivers (id, name).
SpeakersChosen(id) ==
    /\ SpeakersChooser \in shown
    /\ shown' = shown \ {SpeakersChooser}
    /\ IF boxState # "destroyed"
       THEN /\ outputName' = DeviceName(id)
            /\ UNCHANGED <<inputName, micTester>>
       ELSE UNCHANGED deviceVars
    /\ last' = [Did("chooseSpeakers") EXCEPT !.alive = boxState # "destroyed",
                                             !.device = id]
    /\ UNCHANGED <<chanVars, boxVars, muteVars, levelVars, linkVars>>

\* The chooser opened from the Microphone button delivers (id, name).  What
\* the tester does to its level when its device changes is not this file's
\* business: it may keep it or start from zero.
MicrophoneChosen(id) ==
    /\ MicrophoneChooser \in shown
    /\ shown' = shown \ {MicrophoneChooser}
    /\ IF boxState # "destroyed"
       THEN /\ inputName' = DeviceName(id)
            /\ \E l \in {micTester.level, 0} :
                  micTester' = [deviceId |-> id, level |-> l]
            /\ UNCHANGED outputName
       ELSE UNCHANGED deviceVars
    /\ last' = [Did("chooseMicrophone") EXCEPT !.alive = boxState # "destroyed",
                                               !.device = id]
    /\ UNCHANGED <<chanVars, boxVars, muteVars, levelVars, linkVars>>

\* A box shown by the dialog is closed without a choice.
DismissShown ==
    /\ \E b \in shown : shown' = shown \ {b}
    /\ last' = Did("env")
    /\ UNCHANGED <<chanVars, boxVars, muteVars, deviceVars, levelVars, linkVars>>

\* ---------------------------------------------------------- level meter
\* The microphone tester measures a level.
AudioInput ==
    /\ boxState # "destroyed"
    /\ \E l \in Levels \ {micTester.level} :
          micTester' = [micTester EXCEPT !.level = l]
    /\ last' = Did("env")
    /\ UNCHANGED <<chanVars, boxVars, muteVars, shown, outputName, inputName,
                   levelVars, linkVars>>

\* A faulty variant of TimerTick: starts every animation from zero.
TimerTickFromZero ==
    /\ boxState # "destroyed"
    /\ micLevel' = micTester.level
    /\ micTester' = [micTester EXCEPT !.level = 0]
    /\ micLevelAnimation' = [from |-> 0, to |-> micLevel']
    /\ ticked' = TRUE
    /\ last' = Did("tick")
    /\ UNCHANGED <<chanVars, boxVars, muteVars, shown, outputName, inputName, linkVars>>

\* The levelUpdateTimer callback.
TimerTick ==
    /\ boxState # "destroyed"
    /\ LET was == micLevel IN
       /\ micLevel' = micTester.level
       /\ micTester' = [micTester EXCEPT !.level = 0]
       /\ micLevelAnimation' = [from |-> was, to |-> micLevel']
    /\ ticked' = TRUE
    /\ last' = Did("tick")
    /\ UNCHANGED <<chanVars, boxVars, muteVars, shown, outputName, inputName, linkVars>>

\* ------------------------------------------------------- specifications
\* The join-muted and end-call handlers, the invite-link handlers and the
\* device and level handlers write disjoint parts of the state.  Each part is
\* explored on its own, from the initial states in which the channel data the
\* other parts read is fixed; Spec at the end puts all handlers together.
\* The dialog with nothing of the link, device and level parts in play.
InitMute ==
    /\ Init
    /\ username = ""
    /\ inviteLink = ""
    /\ dialog.shareButton
    /\ clipboard = ""
    /\ outputName = DeviceName(0)
    /\ inputName = DeviceName(0)

NextMute ==
    \/ ToggleMuteJoined
    \/ ClickDone
    \/ CloseBoxAgain
    \/ DestroyBox
    \/ ClickEndCall
    \/ ChannelCallUpdate
    \/ ManageRightsUpdate
    \/ GroupCallDestroyed

SpecMute == InitMute /\ [][NextMute]_vars

\* The dialog of a channel without a call to manage: the link part.
InitLink ==
    /\ Init
    /\ channelCall = NoCall
    /\ ~canManageCall
    /\ dialog.id = 1
    /\ outputName = DeviceName(0)
    /\ inputName = DeviceName(0)

NextLink ==
    \/ ClickShare
    \/ \E type \in ResponseTypes, link \in Links : ExportDone(type, link)
    \/ ExportFail
    \/ UsernameUpdate
    \/ InviteLinkUpdate
    \/ TimerTick
    \/ ClickDone
    \/ CloseBoxAgain
    \/ DestroyBox

SpecLink == InitLink /\ [][NextLink]_vars

\* The dialog of a channel without a call to manage: devices and level meter.
InitDevices ==
    /\ Init
    /\ channelCall = NoCall
    /\ ~canManageCall
    /\ username = ""
    /\ inviteLink = ""
    /\ dialog.id = 1
    /\ dialog.shareButton
    /\ clipboard = ""

NextDevices ==
    \/ ClickSpeakers
    \/ ClickMicrophone
    \/ \E id \in DeviceIds : SpeakersChosen(id)
    \/ \E id \in DeviceIds : MicrophoneChosen(id)
    \/ DismissShown
    \/ AudioInput
    \/ TimerTick
    \/ ClickDone
    \/ DestroyBox

SpecDevices == InitDevices /\ [][NextDevices]_vars

Next ==
    \/ NextMute
    \/ NextLink
    \/ NextDevices

Spec == Init /\ [][Next]_vars

\* ----------------------------------------------------------------- C1
ClosingOps == {"done", "end", "closeAgain"}

\* Everything SaveCallJoinMuted and the boxClosing handler ask for.
SaveConditions ==
    /\ dialog.muteJoined
    /\ checked # dialog.joinMuted
    /\ channelCall # NoCall
    /\ channelCall.id = dialog.id
    /\ canManageCall
    /\ channelCall.canChangeJoinMuted
    /\ channelCall.joinMuted # checked

\* C1: a firing of the boxClosing event sends ToggleGroupCallSettings(join_muted
\* = the checkbox value) for the dialog's call and sets the call's join-muted
\* value locally exactly when the checkbox exists, its value differs from the
\* join-muted value read at construction, and the channel still has the call
\* with the dialog's id, the user can manage it, it allows changing join-muted
\* and its value differs from the checkbox; otherwise the firing sends nothing
\* and leaves the channel's call alone.  No other step of the dialog sends it.
C1_SaveOnlyWhenAllHold ==
    [][/\ closings' # closings =>
            IF SaveConditions
            THEN /\ toggleRequests' = Append(toggleRequests,
                        [call |-> dialog.id, join_muted |-> checked])
                 /\ channelCall' = [channelCall EXCEPT !.joinMuted = checked]
            ELSE /\ toggleRequests' = toggleRequests
                 /\ channelCall' = channelCall
       /\ closings' = closings => toggleRequests' = toggleRequests]_vars

\* A closing that sent the request, and the call took the checkbox value.
C1_Witness ==
    /\ last.op = "done"
    /\ last.sent
    /\ Len(toggleRequests) = 1
    /\ channelCall.joinMuted = checked
    /\ checked # dialog.joinMuted

\* ----------------------------------------------------------------- C3
\* C3: the end-call button exists exactly when the user could manage the call
\* at construction; a click on it shows LeaveGroupCallBox and closes the box
\* when the Calls::GroupCall object is alive, and otherwise shows nothing and
\* leaves the box open.
C3_EndCallGuarded ==
    /\ [](last.op = "init" => dialog.endButton = canManageCall)
    /\ [][last'.op = "end" =>
            /\ dialog.endButton
            /\ IF callAlive
               THEN LeaveBox \in shown' /\ boxState' = "closing"
               ELSE shown' = shown /\ boxState' = "open" /\ closings' = closings]_vars

\* The button was clicked after the call object had gone.
C3_Witness ==
    /\ last.op = "end"
    /\ ~callAlive
    /\ boxState = "open"
    /\ shown = {}

CurrentLink ==
    IF username # "" THEN "https://t.me/" \o username ELSE inviteLink

\* C2: a Share click with a non-empty current link puts exactly that link on
\* the clipboard, sends no ExportChatInvite and leaves generatingLink alone; a
\* click with an empty link and no export started before sends exactly one
\* ExportChatInvite and leaves the clipboard alone.
C2_ShareClick ==
    [][last'.op = "share" =>
          IF CurrentLink # ""
          THEN /\ clipboard' = CurrentLink
               /\ last'.copied
               /\ exportsSent' = exportsSent
               /\ exportsInFlight' = exportsInFlight
               /\ generatingLink' = generatingLink
          ELSE /\ clipboard' = clipboard
               /\ ~last'.copied
               /\ exportsSent = 0 =>
                      /\ exportsSent' = 1
                      /\ exportsInFlight' = exportsInFlight + 1]_vars

\* A click copied the username link although an invite link exists as well.
C2_Witness ==
    /\ last.op = "share"
    /\ last.copied
    /\ ~last.sent
    /\ username = "chan"
    /\ inviteLink # ""
    /\ clipboard = "https://t.me/chan"
    /\ exportsSent = 0

\* ----------------------------------------------------------------- C6
\* C6 as claimed: a chatInviteExported response stores its link as the
\* channel's invite link and the clipboard then holds the channel's current
\* link; any other response, or a failure, changes neither.
C6_AsClaimed ==
    [][/\ last'.op = "exportDone" =>
            IF last'.type = "chatInviteExported"
            THEN /\ inviteLink' = last'.link
                 /\ clipboard' = CurrentLink'
            ELSE /\ inviteLink' = inviteLink
                 /\ clipboard' = clipboard
       /\ last'.op = "exportFail" =>
            /\ inviteLink' = inviteLink
            /\ clipboard' = clipboard]_vars

\* C6 amended: a chatInviteExported response stores its link as the channel's
\* invite link and then runs the copy step on the updated channel: when the
\* channel's current link is then non-empty the clipboard holds it, and when it
\* is empty (an empty link in the response, no username) the clipboard is left
\* unchanged; any other response, or a failure, changes neither.
C6_ExportResponse ==
    [][/\ last'.op = "exportDone" =>
            IF last'.type = "chatInviteExported"
            THEN /\ inviteLink' = last'.link
                 /\ IF CurrentLink' # ""
                    THEN clipboard' = CurrentLink' /\ last'.copied
                    ELSE clipboard' = clipboard /\ ~last'.copied
            ELSE /\ inviteLink' = inviteLink
                 /\ clipboard' = clipboard
       /\ last'.op = "exportFail" =>
            /\ inviteLink' = inviteLink
            /\ clipboard' = clipboard]_vars

\* The response's link replaced another invite link (set meanwhile by the
\* application) and reached the clipboard.
C6_Witness ==
    /\ last.op = "exportDone"
    /\ last.type = "chatInviteExported"
    /\ last.link = "https://t.me/joinchat/B"
    /\ last.copied
    /\ username = ""
    /\ inviteLink = last.link
    /\ clipboard = last.link

\* ----------------------------------------------------------------- C7
\* What belongs to the box: its State and its widgets.
dialogState ==
    <<checked, closings, boxState, outputName, inputName, micTester, micLevel,
      micLevelAnimation, ticked, generatingLink>>

\* C7 as claimed: a chatInviteExported response handled after the box was
\* destroyed still stores the link and copies it to the clipboard, shows no
\* toast and touches nothing of the box; a toast needs the box to exist.
C7_AsClaimed ==
    [][/\ (last'.op = "exportDone" /\ last'.type = "chatInviteExported"
            /\ boxState = "destroyed") =>
            /\ inviteLink' = last'.link
            /\ last'.copied
            /\ clipboard' = CurrentLink'
            /\ ~last'.toast
            /\ dialogState' = dialogState
       /\ last'.toast => boxState # "destroyed"]_vars

\* C7 amended: a chatInviteExported response handled after the box was
\* destroyed still stores the link and, when the channel's current link is then
\* non-empty, copies it to the clipboard (an empty one is not copied); it shows
\* no toast and touches nothing of the box; a toast needs the box to exist.
C7_ResponseAfterDestroy ==
    [][/\ (last'.op = "exportDone" /\ last'.type = "chatInviteExported"
            /\ boxState = "destroyed") =>
            /\ inviteLink' = last'.link
            /\ IF CurrentLink' # ""
               THEN clipboard' = CurrentLink' /\ last'.copied
               ELSE clipboard' = clipboard /\ ~last'.copied
            /\ ~last'.toast
            /\ dialogState' = dialogState
       /\ last'.toast => boxState # "destroyed"]_vars

\* The response came after the box had gone: link stored and copied, no toast.
C7_Witness ==
    /\ last.op = "exportDone"
    /\ last.type = "chatInviteExported"
    /\ ~last.alive
    /\ boxState = "destroyed"
    /\ last.copied
    /\ ~last.toast
    /\ inviteLink = last.link
    /\ clipboard = last.link
    /\ exportsSent = 1

\* ----------------------------------------------------------------- C8
\* C8: generatingLink starts false, becomes true only in a Share click made
\* while the channel has no link, and no step sets it back; so the dialog sends
\* at most one ExportChatInvite whatever the clicks and responses.
C8_GenerateOnce ==
    /\ [](last.op = "init" => ~generatingLink)
    /\ [](exportsSent <= 1)
    /\ [](generatingLink <=> exportsSent = 1)
    /\ [][/\ generatingLink => generatingLink'
          /\ (~generatingLink /\ generatingLink') =>
                last'.op = "share" /\ CurrentLink = ""]_vars

\* The request was answered, the channel still has no link, and one more Share
\* click sent nothing.
C8_Witness ==
    /\ last.op = "share"
    /\ ~last.sent
    /\ ~last.copied
    /\ generatingLink
    /\ exportsSent = 1
    /\ exportsInFlight = 0
    /\ CurrentLink = ""

\* ----------------------------------------------------------------- C4
\* C4: the chooser the Speakers button opens is the chooser of audio output
\* devices, and the one the Microphone button opens is the chooser of audio
\* input devices.
C4_AsClaimed ==
    \A b \in shown :
        /\ b.from = "speakers" => b.box = "ChooseAudioOutputBox"
        /\ b.from = "microphone" => b.box = "ChooseAudioInputBox"

\* ----------------------------------------------------------------- C5
\* C5: a tick of the level timer stores the tester's level in micLevel, resets
\* the tester's level, and starts the meter animation from the previous
\* micLevel to the new one; so every animation starts where the one before it
\* ended (at 0 before the first tick), and no other step changes micLevel.
C5_LevelPolling ==
    /\ [](~ticked => micLevel = 0 /\ micLevelAnimation = [from |-> 0, to |-> 0])
    /\ [](micLevelAnimation.to = micLevel)
    /\ [][/\ last'.op = "tick" =>
               /\ micLevel' = micTester.level
               /\ micTester' = [micTester EXCEPT !.level = 0]
               /\ micLevelAnimation' = [from |-> micLevel, to |-> micLevel']
               /\ micLevelAnimation'.from = micLevelAnimation.to
          /\ (micLevel' # micLevel \/ micLevelAnimation' # micLevelAnimation) =>
               last'.op = "tick"]_vars

\* A tick animated the meter down from the level the tick before had reached.
C5_Witness ==
    /\ last.op = "tick"
    /\ ticked
    /\ micLevelAnimation = [from |-> 2, to |-> 1]
    /\ micLevel = 1
    /\ micTester.level = 0

\* ---------------------------------------------------------------- C10
\* C10: a choice from the Speakers chooser publishes the chosen name on the
\* output label and leaves the microphone label and the tester alone; a choice
\* from the Microphone chooser publishes the name on the input label, gives the
\* tester the chosen device id and leaves the output label alone; a choice
\* delivered after the box was destroyed changes nothing.
C10_DeviceChosen ==
    [][/\ last'.op = "chooseSpeakers" =>
            IF boxState # "destroyed"
            THEN /\ outputName' = DeviceName(last'.device)
                 /\ inputName' = inputName
                 /\ micTester' = micTester
            ELSE /\ dialogState' = dialogState
                 /\ UNCHANGED <<chanVars, muteVars, levelVars, linkVars>>
       /\ last'.op = "chooseMicrophone" =>
            IF boxState # "destroyed"
            THEN /\ inputName' = DeviceName(last'.device)
                 /\ micTester'.deviceId = last'.device
                 /\ outputName' = outputName
            ELSE /\ dialogState' = dialogState
                 /\ UNCHANGED <<chanVars, muteVars, levelVars, linkVars>>]_vars

\* A device was chosen from the Speakers chooser after the box had gone, and
\* the output label kept its value.
C10_Witness ==
    /\ last.op = "chooseSpeakers"
    /\ ~last.alive
    /\ boxState = "destroyed"
    /\ outputName # DeviceName(last.device)
    /\ SpeakersChooser \notin shown

====
